---- MODULE Spec2Model ----
(***************************************************************************)
(* Knock Shield example firmware (Bylund Automotive).                      *)
(*                                                                         *)
(* Two sketches are modelled side by side:                                 *)
(*   variant 1  src/Knock_Shield_Example.ino   single channel (v1.1.0)     *)
(*   variant 2  src/unnamed/part_000           two channels + SD logging   *)
(*                                             (v1.3.0)                    *)
(* The program is sequential: pc is the statement the sketch is at, and    *)
(* every action is one statement (or one straight-line group of            *)
(* statements) of setup(), loop(), COM_SPI() or logData().                 *)
(***************************************************************************)
EXTENDS Integers, Sequences, FiniteSets, TLC

VARIABLES
    variant,        \* which sketch runs: 1 = single channel, 2 = two channels
    pc,             \* statement the program is at
    win,            \* measurement window of the iteration in progress (0 = none)
    spiRet,         \* statement COM_SPI returns to
    txData,         \* argument of the COM_SPI call in progress
    cfgIdx,         \* number of COM_SPI calls of setup() already made
    nss,            \* SPU_NSS_PIN level
    sdcs,           \* SDCARD_CS_PIN level
    testPin,        \* SPU_TEST_PIN level
    hold,           \* SPU_HOLD_PIN level
    ledStatus,      \* LED_STATUS level
    ledLimit,       \* LED_LIMIT level
    spiMode,        \* SPI data mode of the bus
    spiDiv,         \* SPI clock divider of the bus
    logEnabled,     \* global logEnabled
    spuChannel,     \* channel the SPU has been told to use (0 = never told)
    cfgLog,         \* bytes transferred to the SPU by setup(), in order
    io,             \* bus/pin/ADC events of the loop iteration in progress
    sinceRise,      \* microseconds since the hold line was last raised
    adcValue_UA,    \* variant 1 local
    adcChannel1,    \* variant 2 local
    adcChannel2,    \* variant 2 local
    analogOutput,   \* local analogOutput of the iteration
    analogPin,      \* duty cycle last written to ANALOG_OUTPUT_PIN
    pinRaw,         \* ADC code the duty cycle on the pin was computed from
    serialLine,     \* percentages of the measurement line printed in this iteration
    logLast,        \* line appended to log.txt in this iteration
    csLows,         \* times the current COM_SPI call has driven SPU_NSS_PIN LOW
    csBytes,        \* bytes transferred since SPU_NSS_PIN last went LOW
    sdProbe,        \* outcome of the SD.begin of setup(): "none", "ok" or "fail"
    setupSerial,    \* lines printed on the serial port by setup()
    loopSerial,     \* lines printed on the serial port in this iteration
    logCalls,       \* calls of logData made in this iteration
    logResult,      \* what the logData call of this iteration came to
    logFile,        \* lines of log.txt on the card
    cardFree,       \* lines the card still has room for
    knock_percentage,   \* variant 1 local (float)
    knockChannel1,  \* variant 2 local (float)
    knockChannel2,  \* variant 2 local (float)
    pinPercent      \* percentage computed from the ADC code in pinRaw

vars == << variant, pc, win, spiRet, txData, cfgIdx, nss, sdcs, testPin, hold,
           ledStatus, ledLimit, spiMode, spiDiv, logEnabled, spuChannel,
           cfgLog, io, sinceRise, adcValue_UA, adcChannel1, adcChannel2,
           analogOutput, analogPin, pinRaw, serialLine, logLast, csLows,
           csBytes, sdProbe, setupSerial, loopSerial, logCalls, logResult,
           logFile, cardFree,
          knock_percentage, knockChannel1, knockChannel2, pinPercent >>

----------------------------------------------------------------------------
(* Register map and parameters.                                            *)

SPU_SET_PRESCALAR_6MHz == 68
SPU_SET_CHANNEL_1 == 224
SPU_SET_CHANNEL_2 == 225
SPU_SET_BAND_PASS_FREQUENCY == 42
SPU_SET_PROGRAMMABLE_GAIN == 162
SPU_SET_INTEGRATOR_TIME == 202
KNOCK_THRESHOLD_LEVEL == 204
MEASUREMENT_WINDOW_TIME == 3000
ADC_MAX == 1023
PWM_MAX == 255
SPI_MODE1 == 1
SPI_CLOCK_DIV16 == 16

(* Bounds of the model.                                                    *)
MaxJitter == 1      \* extra microseconds a timed statement may take
AdcWindow == 0      \* ADC codes sampled around 0, the LED boundary and 1023
MaxLog == 1         \* lines the card has room for when the session starts

Levels == {"LOW", "HIGH"}

\* The raw value at which r*100/1023 crosses 80 lies between 818 and 819.
AdcValues ==
    { r \in 0..ADC_MAX :
        \/ r <= AdcWindow
        \/ (r >= 818 - AdcWindow /\ r <= 819 + AdcWindow)
        \/ r >= ADC_MAX - AdcWindow }

----------------------------------------------------------------------------
(* Signal conditioning, as the sketches compute it.                        *)

\* C integer division truncates toward zero.
CDiv(a, b) ==
    IF a >= 0 THEN a \div b ELSE -((-a) \div b)

\* Variation: the rescale divides by the number of codes, not by the top code.
map_ByCodeCount(x, in_min, in_max, out_min, out_max) ==
    CDiv((x - in_min) * (out_max - out_min), in_max - in_min + 1) + out_min

\* Arduino map(): (x - in_min) * (out_max - out_min) / (in_max - in_min) + out_min
\* in long arithmetic.
map(x, in_min, in_max, out_min, out_max) ==
    CDiv((x - in_min) * (out_max - out_min), in_max - in_min) + out_min

\* Conversion of the long result to uint8_t.
ToUint8(x) == x % 256

\* uint8_t analogOutput = map(adcValue, 0, 1023, 0, 255);
AnalogOutputOf(raw) == ToUint8(map(raw, 0, ADC_MAX, 0, PWM_MAX))

\* Variation: the comparison picks the smaller channel.
CombinedAdc_Smaller(a1, a2) == IF a1 < a2 THEN a1 ELSE a2

\* Variant 2: if (adcChannel1 < adcChannel2) adcValue = adcChannel2; else adcValue = adcChannel1;
CombinedAdc(a1, a2) == IF a1 < a2 THEN a2 ELSE a1

----------------------------------------------------------------------------
(* Single-precision arithmetic of the percentage.  A float is << m, e >>,  *)
(* standing for m * 2^e with 2^23 <= m < 2^24, or << 0, 0 >> for zero;      *)
(* every operation rounds its exact result to the nearest float, ties to    *)
(* the even mantissa.  The values here are all non-negative.                *)

FloatZero == << 0, 0 >>
FloatMin == 2^23
FloatLim == 2^24

\* m * 2^e (0 <= m < 2^24) with the mantissa moved up into place.
FloatNormalise(m, e) ==
    IF m = 0 THEN FloatZero
    ELSE LET k == CHOOSE i \in 0..23 : m >= 2^(23 - i) /\ m < 2^(24 - i)
         IN  << m * 2^k, e - k >>

\* (float)n for an int n below 2^24: exact.
FloatOfInt(n) == FloatNormalise(n, 0)

\* q * 2^e with q of 24 bits, one up when the dropped part says so.
FloatRound(q, e, up) ==
    LET m == IF up THEN q + 1 ELSE q
    IN  IF m = FloatLim THEN << FloatMin, e + 1 >> ELSE << m, e >>

\* The exact value p * 2^e (0 < p < 2^31) rounded to a float.
FloatPack(p, e) ==
    IF p < FloatMin THEN FloatNormalise(p, e)
    ELSE LET s == CHOOSE k \in 0..7 : (p \div 2^k) \in FloatMin..(FloatLim - 1)
             q == p \div 2^s
             low == p % 2^s
         IN  FloatRound(q, e + s,
                        2 * low > 2^s \/ (2 * low = 2^s /\ q % 2 = 1))

\* m * 2^e (m > 0) with the factors of two moved from m to e.
OddPart(m, e) ==
    LET k == CHOOSE i \in 0..23 : m % 2^i = 0 /\ (m \div 2^i) % 2 = 1
    IN  << m \div 2^k, e + k >>

\* f / g for g not zero and odd parts below 2^12 (integers up to 4095 and
\* their multiples by powers of two): the odd parts are scaled to
\* den <= num < 2 * den and num * 2^23 is divided by den in two steps.
FloatDiv(f, g) ==
    IF f[1] = 0 THEN FloatZero
    ELSE LET a == OddPart(f[1], f[2])
             b == OddPart(g[1], g[2])
             ta == IF a[1] >= b[1] THEN 0
                   ELSE CHOOSE t \in 1..12 :
                          b[1] <= a[1] * 2^t /\ a[1] * 2^t < 2 * b[1]
             tb == IF a[1] < b[1] THEN 0
                   ELSE CHOOSE t \in 0..12 :
                          b[1] * 2^t <= a[1] /\ a[1] < b[1] * 2^(t + 1)
             num == a[1] * 2^ta
             den == b[1] * 2^tb
             q1 == (num * 4096) \div den
             r1 == (num * 4096) % den
             q2 == (r1 * 2048) \div den
             r2 == (r1 * 2048) % den
             q == q1 * 2048 + q2
         IN  FloatRound(q, (a[2] - b[2]) + (tb - ta) - 23,
                        2 * r2 > den \/ (2 * r2 = den /\ q % 2 = 1))

\* f * g for a g whose odd part is below 128 (the product then fits).
FloatMul(f, g) ==
    IF f[1] = 0 \/ g[1] = 0 THEN FloatZero
    ELSE LET o == OddPart(g[1], g[2])
         IN  FloatPack(f[1] * o[1], f[2] + o[2])

\* f <= g.
FloatLe(f, g) ==
    \/ f[1] = 0
    \/ /\ g[1] # 0
       /\ \/ f[2] < g[2]
          \/ f[2] = g[2] /\ f[1] <= g[1]

\* f + 0.5 for an f below 2^24 with e <= -1.
FloatAddHalf(f) ==
    IF f[1] = 0 THEN << FloatMin, -24 >>
    ELSE FloatPack(f[1] + 2^((0 - f[2]) - 1), f[2])

\* (unsigned long)f for an f below 2^24: the digits after the point go.
FloatTrunc(f) ==
    IF f[1] = 0 \/ f[2] <= -24 THEN 0
    ELSE IF f[2] >= 0 THEN f[1] * 2^f[2]
    ELSE f[1] \div 2^(0 - f[2])

\* Print::printFloat(number, 0) / String(number, 0): the number with 0.5
\* added, cut to an integer.
PrintFloat0(f) == FloatTrunc(FloatAddHalf(f))

\* ((float)adc / 1023) * 100, worked out once for every ADC code.
KnockTable ==
    [ adc \in 0..ADC_MAX |->
        FloatMul(FloatDiv(FloatOfInt(adc), FloatOfInt(ADC_MAX)), FloatOfInt(100)) ]

\* Variation: the reading is taken as a fraction of 1024 codes.
KnockPercentage_Of1024(adc) ==
    FloatMul(FloatDiv(FloatOfInt(adc), FloatOfInt(ADC_MAX + 1)), FloatOfInt(100))

KnockPercentage(adc) == KnockTable[adc]

----------------------------------------------------------------------------

\* Variation: the percentage is taken of 1024 codes.
PercentReaches80_Of1024(raw) == raw * 100 >= 80 * (ADC_MAX + 1)

\* Variant 1: knock_percentage = ((float)adc / 1023) * 100;  knock_percentage >= 80.
Eighty == FloatOfInt(80)

PercentReaches80(raw) == FloatLe(Eighty, KnockPercentage(raw))

\* Variation: the threshold itself does not light the LED.
OutputReachesThreshold_Strict(out) == out > KNOCK_THRESHOLD_LEVEL

\* Variant 2: analogOutput >= KNOCK_THRESHOLD_LEVEL.
OutputReachesThreshold(out) == out >= KNOCK_THRESHOLD_LEVEL

\* Variation: the digits after the point are cut off, not rounded.
PrintedPercent_Truncated(raw) == (100 * raw) \div ADC_MAX

\* Serial.print(knock_percentage, 0) / String(knockChannel, 0): the float
\* computed from the reading, printed with no digits after the point.
PrintedTable == [ raw \in 0..ADC_MAX |-> PrintFloat0(KnockPercentage(raw)) ]

PrintedPercent(raw) == PrintedTable[raw]

----------------------------------------------------------------------------
(* Start-up sequence of SPU bytes.                                         *)

\* Variation: gain written before the band-pass frequency.
ConfigSeq_GainFirst(v) ==
    IF v = 1
    THEN << SPU_SET_PRESCALAR_6MHz, SPU_SET_CHANNEL_1, SPU_SET_PROGRAMMABLE_GAIN,
            SPU_SET_BAND_PASS_FREQUENCY, SPU_SET_INTEGRATOR_TIME >>
    ELSE << SPU_SET_PRESCALAR_6MHz, SPU_SET_PROGRAMMABLE_GAIN,
            SPU_SET_BAND_PASS_FREQUENCY, SPU_SET_INTEGRATOR_TIME >>

ConfigSeq(v) ==
    IF v = 1
    THEN << SPU_SET_PRESCALAR_6MHz, SPU_SET_CHANNEL_1, SPU_SET_BAND_PASS_FREQUENCY,
            SPU_SET_PROGRAMMABLE_GAIN, SPU_SET_INTEGRATOR_TIME >>
    ELSE << SPU_SET_PRESCALAR_6MHz, SPU_SET_BAND_PASS_FREQUENCY,
            SPU_SET_PROGRAMMABLE_GAIN, SPU_SET_INTEGRATOR_TIME >>

\* Variation: the selection of the first window is reused for the second.
SelectByte_Cached(w) == SPU_SET_CHANNEL_1

\* Channel-select command of a window of variant 2.
SelectByte(w) == IF w = 1 THEN SPU_SET_CHANNEL_1 ELSE SPU_SET_CHANNEL_2

\* What the SPU makes of a byte: the channel-select commands set the channel.
SpuChannelAfter(ch, byte) ==
    IF byte = SPU_SET_CHANNEL_1 THEN 1
    ELSE IF byte = SPU_SET_CHANNEL_2 THEN 2
    ELSE ch

InSetup == pc \in {"s_begin", "s_pinmode", "s_initvals", "s_flash_on",
                   "s_flash_off", "s_sdprobe", "s_cfg"}

InComSpi == pc \in {"spi_cfg", "spi_low", "spi_xfer", "spi_high", "spi_ret"}

\* log.txt as an earlier session may have left it on the card: absent or
\* empty, or holding a line.  Variant 1 has no card.
CardContents(v) ==
    IF v = 2 THEN { << >>, << << 0, 0 >> >> } ELSE { << >> }

\* Serial lines of the sketches.
MsgReset == "Device reset."
MsgLogEnabled == "Data logging enabled."
MsgSpuSpi == "SPU_SPI: 0x.."
MsgConfiguring == "Configuring SPU: 0x.., 0x.., 0x.., 0x.."
MsgSdError == "Error accessing SD-card."
MsgLevel == "SPU KNOCK LEVEL: ..%"
MsgChannels == "Channel 1: ..% - Channel 2: ..%"

----------------------------------------------------------------------------
Init ==
    /\ variant \in {1, 2}
    /\ pc = "s_begin"
    /\ win = 0
    /\ spiRet = "none"
    /\ txData = 0
    /\ cfgIdx = 0
    /\ nss = "Z"
    /\ sdcs = "Z"
    /\ testPin = "Z"
    /\ hold = "Z"
    /\ ledStatus = "Z"
    /\ ledLimit = "Z"
    /\ spiMode = 0
    /\ spiDiv = 4
    /\ logEnabled = FALSE
    /\ spuChannel = 0
    /\ cfgLog = << >>
    /\ io = << >>
    /\ sinceRise = 0
    /\ adcValue_UA = 0
    /\ adcChannel1 = 0
    /\ adcChannel2 = 0
    /\ analogOutput = 0
    /\ analogPin = 0
    /\ pinRaw = 0
    /\ serialLine = << >>
    /\ logLast = << >>
    /\ csLows = 0
    /\ csBytes = 0
    /\ sdProbe = "none"
    /\ setupSerial = << >>
    /\ loopSerial = << >>
    /\ logCalls = 0
    /\ logResult = "none"
    /\ logFile \in CardContents(variant)
    /\ cardFree = IF variant = 2 THEN MaxLog ELSE 0
    /\ knock_percentage = FloatZero
    /\ knockChannel1 = FloatZero
    /\ knockChannel2 = FloatZero
    /\ pinPercent = FloatZero

pins == << nss, sdcs, testPin, hold, ledStatus, ledLimit >>
bus == << spiMode, spiDiv >>
call == << spiRet, txData, csLows, csBytes >>
percents == << knock_percentage, knockChannel1, knockChannel2 >>
locals == << adcValue_UA, adcChannel1, adcChannel2, analogOutput, percents >>
outputs == << analogPin, pinRaw, pinPercent, serialLine, logLast >>
spu == << spuChannel, cfgLog >>
card == << logFile, cardFree >>
logging == << sdProbe, setupSerial, loopSerial, logCalls, logResult, card >>

\* An observable event of a loop iteration: a byte on the bus ("spi", byte),
\* a write of the hold line ("hold", 1 or 0), the blocking wait ("delay", us)
\* or an ADC conversion ("adc", channel the SPU is set to, value read).
Event(kind, a, b) == << kind, a, b >>

\* pinMode(pin, OUTPUT): a pin that was an input starts driving its port bit, 0.
AsOutput(level) == IF level = "Z" THEN "LOW" ELSE level

\* State the SD library leaves the shared bus in (mode 0; slow clock while it
\* is still probing, half speed once the card answered).
SdSpiMode == 0
SdSpiDiv(ok) == IF ok THEN 4 ELSE 128

----------------------------------------------------------------------------
(* setup()                                                                 *)

\* Serial.begin; SPI.begin (SS becomes an output driven HIGH); bus settings.
SetupBegin ==
    /\ pc = "s_begin"
    /\ nss' = "HIGH"
    /\ IF variant = 1
       THEN spiDiv' = SPI_CLOCK_DIV16 /\ spiMode' = SPI_MODE1
       ELSE UNCHANGED bus
    /\ pc' = "s_pinmode"
    /\ UNCHANGED << logging, variant, win, call, cfgIdx, sdcs, testPin, hold,
                    ledStatus, ledLimit, logEnabled, spu, io, sinceRise,
                    locals, outputs >>

SetupPinMode ==
    /\ pc = "s_pinmode"
    /\ nss' = AsOutput(nss)
    /\ sdcs' = IF variant = 2 THEN AsOutput(sdcs) ELSE sdcs
    /\ testPin' = AsOutput(testPin)
    /\ hold' = AsOutput(hold)
    /\ ledStatus' = AsOutput(ledStatus)
    /\ ledLimit' = AsOutput(ledLimit)
    /\ pc' = "s_initvals"
    /\ UNCHANGED << logging, variant, win, call, cfgIdx, bus, logEnabled, spu,
                    io, sinceRise, locals, outputs >>

SetupInitialValues ==
    /\ pc = "s_initvals"
    /\ nss' = "HIGH"
    /\ sdcs' = IF variant = 2 THEN "HIGH" ELSE sdcs
    /\ testPin' = "HIGH"
    /\ hold' = "LOW"
    /\ pc' = "s_flash_on"
    /\ UNCHANGED << logging, variant, win, call, cfgIdx, ledStatus, ledLimit,
                    bus, logEnabled, spu, io, sinceRise, locals, outputs >>

SetupFlashOn ==
    /\ pc = "s_flash_on"
    /\ ledStatus' = "HIGH"
    /\ ledLimit' = "HIGH"
    /\ pc' = "s_flash_off"
    /\ setupSerial' = Append(setupSerial, MsgReset)
    /\ UNCHANGED << sdProbe, loopSerial, logCalls, logResult, card, variant,
                    win, call, cfgIdx, nss, sdcs, testPin, hold, bus,
                    logEnabled, spu, io, sinceRise, locals, outputs >>

SetupFlashOff ==
    /\ pc = "s_flash_off"
    /\ ledStatus' = "LOW"
    /\ ledLimit' = "LOW"
    /\ pc' = IF variant = 2 THEN "s_sdprobe" ELSE "s_cfg"
    /\ UNCHANGED << logging, variant, win, call, cfgIdx, nss, sdcs, testPin,
                    hold, bus, logEnabled, spu, io, sinceRise, locals,
                    outputs >>

\* Variation: the message is printed outside the if.
SetupSdProbe_AlwaysPrints ==
    /\ pc = "s_sdprobe"
    /\ \E ok \in BOOLEAN :
         /\ logEnabled' = IF ok THEN TRUE ELSE logEnabled
         /\ sdProbe' = IF ok THEN "ok" ELSE "fail"
         /\ setupSerial' = Append(setupSerial, MsgLogEnabled)
         /\ spiMode' = SdSpiMode
         /\ spiDiv' = SdSpiDiv(ok)
    /\ pc' = "s_cfg"
    /\ UNCHANGED << loopSerial, logCalls, logResult, card, variant, win, call,
                    cfgIdx, pins, spu, io, sinceRise, locals, outputs >>

\* Variant 2: if ( SD.begin(SDCARD_CS_PIN) ) logEnabled = true;
SetupSdProbe ==
    /\ pc = "s_sdprobe"
    /\ \E ok \in BOOLEAN :
         /\ logEnabled' = IF ok THEN TRUE ELSE logEnabled
         /\ sdProbe' = IF ok THEN "ok" ELSE "fail"
         /\ setupSerial' = IF ok THEN Append(setupSerial, MsgLogEnabled)
                           ELSE setupSerial
         /\ spiMode' = SdSpiMode
         /\ spiDiv' = SdSpiDiv(ok)
    /\ pc' = "s_cfg"
    /\ UNCHANGED << loopSerial, logCalls, logResult, card, variant, win, call,
                    cfgIdx, pins, spu, io, sinceRise, locals, outputs >>

\* The next COM_SPI(...) call of the "Configure SPU" block.
SetupConfigure ==
    /\ pc = "s_cfg"
    /\ cfgIdx < Len(ConfigSeq(variant))
    /\ txData' = ConfigSeq(variant)[cfgIdx + 1]
    /\ cfgIdx' = cfgIdx + 1
    /\ spiRet' = "s_cfg"
    /\ csLows' = 0
    /\ pc' = "spi_cfg"
    /\ UNCHANGED << logging, variant, win, csBytes, pins, bus, logEnabled,
                    spu, io, sinceRise, locals, outputs >>

\* setup() returns; the core calls loop().
SetupDone ==
    /\ pc = "s_cfg"
    /\ cfgIdx = Len(ConfigSeq(variant))
    /\ pc' = "l_status"
    /\ setupSerial' = IF variant = 2 THEN Append(setupSerial, MsgConfiguring)
                      ELSE setupSerial
    /\ UNCHANGED << sdProbe, loopSerial, logCalls, logResult, card, variant,
                    win, call, cfgIdx, pins, bus, logEnabled, spu, io,
                    sinceRise, locals, outputs >>

----------------------------------------------------------------------------
(* COM_SPI(TX_data)                                                        *)

\* Variation: the bus is set up for the SPU by the calls of setup only.
ComSpiConfigure_SetupOnly ==
    /\ pc = "spi_cfg"
    /\ IF variant = 2 /\ spiRet = "s_cfg"
       THEN spiMode' = SPI_MODE1 /\ spiDiv' = SPI_CLOCK_DIV16
       ELSE UNCHANGED bus
    /\ pc' = "spi_low"
    /\ UNCHANGED << logging, variant, win, call, cfgIdx, pins, logEnabled,
                    spu, io, sinceRise, locals, outputs >>

\* Variant 2 re-asserts the bus settings on every call; variant 1 does not.
ComSpiConfigure ==
    /\ pc = "spi_cfg"
    /\ IF variant = 2
       THEN spiMode' = SPI_MODE1 /\ spiDiv' = SPI_CLOCK_DIV16
       ELSE UNCHANGED bus
    /\ pc' = "spi_low"
    /\ UNCHANGED << logging, variant, win, call, cfgIdx, pins, logEnabled,
                    spu, io, sinceRise, locals, outputs >>

ComSpiSelect ==
    /\ pc = "spi_low"
    /\ nss' = "LOW"
    /\ csLows' = csLows + 1
    /\ csBytes' = 0
    /\ pc' = "spi_xfer"
    /\ UNCHANGED << logging, variant, win, spiRet, txData, cfgIdx, sdcs,
                    testPin, hold, ledStatus, ledLimit, bus, logEnabled, spu,
                    io, sinceRise, locals, outputs >>

\* SPI.transfer(TX_data): the byte reaches the SPU.
ComSpiTransfer ==
    /\ pc = "spi_xfer"
    /\ spuChannel' = SpuChannelAfter(spuChannel, txData)
    /\ csBytes' = csBytes + 1
    /\ IF spiRet = "s_cfg"
       THEN cfgLog' = Append(cfgLog, txData) /\ UNCHANGED io
       ELSE io' = Append(io, Event("spi", txData, 0)) /\ UNCHANGED cfgLog
    /\ pc' = "spi_high"
    /\ UNCHANGED << logging, variant, win, spiRet, txData, csLows, cfgIdx,
                    pins, bus, logEnabled, sinceRise, locals, outputs >>

\* Variation: the call returns without releasing the chip select.
ComSpiDeselect_NotRestored ==
    /\ pc = "spi_high"
    /\ pc' = "spi_ret"
    /\ UNCHANGED << logging, variant, win, call, cfgIdx, pins, bus,
                    logEnabled, spu, io, sinceRise, locals, outputs >>

ComSpiDeselect ==
    /\ pc = "spi_high"
    /\ nss' = "HIGH"
    /\ pc' = "spi_ret"
    /\ UNCHANGED << logging, variant, win, call, cfgIdx, sdcs, testPin, hold,
                    ledStatus, ledLimit, bus, logEnabled, spu, io, sinceRise,
                    locals, outputs >>

\* (Variant 1 prints the response;) return Response.
ComSpiReturn ==
    /\ pc = "spi_ret"
    /\ pc' = spiRet
    /\ spiRet' = "none"
    /\ setupSerial' = IF variant = 1 THEN Append(setupSerial, MsgSpuSpi)
                      ELSE setupSerial
    /\ UNCHANGED << sdProbe, loopSerial, logCalls, logResult, card, variant,
                    win, txData, csLows, csBytes, cfgIdx, pins, bus,
                    logEnabled, spu, io, sinceRise, locals, outputs >>

----------------------------------------------------------------------------
(* loop()                                                                  *)

\* digitalWrite(LED_STATUS, HIGH): an iteration starts.
LoopStatusOn ==
    /\ pc = "l_status"
    /\ ledStatus' = "HIGH"
    /\ io' = << >>
    /\ serialLine' = << >>
    /\ logLast' = << >>
    /\ win' = 1
    /\ pc' = IF variant = 2 THEN "l_select" ELSE "l_hold_hi"
    /\ loopSerial' = << >>
    /\ logCalls' = 0
    /\ logResult' = "none"
    /\ UNCHANGED << sdProbe, setupSerial, card, variant, call, cfgIdx, nss,
                    sdcs, testPin, hold, ledLimit, bus, logEnabled, spu,
                    sinceRise, locals, analogPin, pinRaw, pinPercent >>

\* Variation: the window is opened before the channel is selected.
LoopSelectChannel_AfterHold ==
    /\ pc = "l_select"
    /\ hold' = "HIGH"
    /\ txData' = SelectByte(win)
    /\ spiRet' = "l_hold_hi"
    /\ csLows' = 0
    /\ pc' = "spi_cfg"
    /\ UNCHANGED << logging, variant, win, csBytes, cfgIdx, nss, sdcs,
                    testPin, ledStatus, ledLimit, bus, logEnabled, spu, io,
                    sinceRise, locals, outputs >>

\* Variant 2: COM_SPI(SPU_SET_CHANNEL_1) / COM_SPI(SPU_SET_CHANNEL_2).
LoopSelectChannel ==
    /\ pc = "l_select"
    /\ txData' = SelectByte(win)
    /\ spiRet' = "l_hold_hi"
    /\ csLows' = 0
    /\ pc' = "spi_cfg"
    /\ UNCHANGED << logging, variant, win, csBytes, cfgIdx, pins, bus,
                    logEnabled, spu, io, sinceRise, locals, outputs >>

\* digitalWrite(SPU_HOLD_PIN, HIGH): the window opens.
LoopHoldHigh ==
    /\ pc = "l_hold_hi"
    /\ hold' = "HIGH"
    /\ sinceRise' = 0
    /\ io' = Append(io, Event("hold", 1, 0))
    /\ pc' = "l_wait"
    /\ UNCHANGED << logging, variant, win, call, cfgIdx, nss, sdcs, testPin,
                    ledStatus, ledLimit, bus, logEnabled, spu, locals,
                    outputs >>

\* Variation: a wait that may return one microsecond early.
DelayTaken_Early(us, jitter) == us - 1 + jitter

\* Time delayMicroseconds(us) blocks for: never less than us.
DelayTaken(us, jitter) == us + jitter

\* delayMicroseconds(MEASUREMENT_WINDOW_TIME).
LoopWait ==
    /\ pc = "l_wait"
    /\ \E j \in 0..MaxJitter :
         sinceRise' = sinceRise + DelayTaken(MEASUREMENT_WINDOW_TIME, j)
    /\ io' = Append(io, Event("delay", MEASUREMENT_WINDOW_TIME, 0))
    /\ pc' = "l_hold_lo"
    /\ UNCHANGED << logging, variant, win, call, cfgIdx, pins, bus,
                    logEnabled, spu, locals, outputs >>

\* Variation: the sketch goes on to sample without lowering the hold line.
LoopHoldLow_NotLowered ==
    /\ pc = "l_hold_lo"
    /\ \E j \in 0..MaxJitter : sinceRise' = sinceRise + j
    /\ pc' = "l_adc"
    /\ UNCHANGED << logging, variant, win, call, cfgIdx, pins, bus,
                    logEnabled, spu, io, locals, outputs >>

\* digitalWrite(SPU_HOLD_PIN, LOW): the window closes, the output is frozen.
LoopHoldLow ==
    /\ pc = "l_hold_lo"
    /\ \E j \in 0..MaxJitter : sinceRise' = sinceRise + j
    /\ hold' = "LOW"
    /\ io' = Append(io, Event("hold", 0, 0))
    /\ pc' = "l_adc"
    /\ UNCHANGED << logging, variant, win, call, cfgIdx, nss, sdcs, testPin,
                    ledStatus, ledLimit, bus, logEnabled, spu, locals,
                    outputs >>

\* Where the program goes after the sample of window w.
AfterSample(v, w) == IF v = 2 /\ w = 1 THEN "l_select" ELSE "l_conv"

\* analogRead(ANALOG_INPUT_PIN) into adcValue_UA / adcChannel1 / adcChannel2.
\* The window clock is stopped and cleared once the sample is taken.
LoopAdcRead ==
    /\ pc = "l_adc"
    /\ \E v \in AdcValues :
         /\ io' = Append(io, Event("adc", spuChannel, v))
         /\ adcValue_UA' = IF variant = 1 THEN v ELSE adcValue_UA
         /\ adcChannel1' = IF variant = 2 /\ win = 1 THEN v ELSE adcChannel1
         /\ adcChannel2' = IF variant = 2 /\ win = 2 THEN v ELSE adcChannel2
    /\ sinceRise' = 0
    /\ win' = IF variant = 2 /\ win = 1 THEN 2 ELSE win
    /\ pc' = AfterSample(variant, win)
    /\ UNCHANGED << logging, variant, call, cfgIdx, pins, bus, logEnabled,
                    spu, analogOutput, percents, outputs >>

\* The ADC code the analog output of the iteration is computed from.
AdcForOutput ==
    IF variant = 1 THEN adcValue_UA ELSE CombinedAdc(adcChannel1, adcChannel2)

\* The percentage(s) of the reading(s), then
\* analogOutput = map(adc, 0, 1023, 0, 255); analogWrite(ANALOG_OUTPUT_PIN, analogOutput);
LoopAnalogWrite ==
    /\ pc = "l_conv"
    /\ knock_percentage' =
         IF variant = 1 THEN KnockPercentage(adcValue_UA) ELSE knock_percentage
    /\ knockChannel1' =
         IF variant = 2 THEN KnockPercentage(adcChannel1) ELSE knockChannel1
    /\ knockChannel2' =
         IF variant = 2 THEN KnockPercentage(adcChannel2) ELSE knockChannel2
    /\ analogOutput' = AnalogOutputOf(AdcForOutput)
    /\ analogPin' = analogOutput'
    /\ pinRaw' = AdcForOutput
    /\ pinPercent' = IF variant = 1 THEN knock_percentage'
                     ELSE IF adcChannel1 < adcChannel2 THEN knockChannel2'
                     ELSE knockChannel1'
    /\ pc' = "l_limit"
    /\ UNCHANGED << logging, variant, win, call, cfgIdx, pins, bus,
                    logEnabled, spu, io, sinceRise, adcValue_UA, adcChannel1,
                    adcChannel2, serialLine, logLast >>

\* Variation: a lit limit LED stays lit (the else branch is missing).
LimitCondition_Latched ==
    \/ ledLimit = "HIGH"
    \/ IF variant = 1 THEN PercentReaches80(adcValue_UA)
       ELSE OutputReachesThreshold(analogOutput)

\* The condition of the limit-LED statement of each sketch.
LimitCondition ==
    IF variant = 1 THEN PercentReaches80(adcValue_UA)
    ELSE OutputReachesThreshold(analogOutput)

\* if (...) digitalWrite(LED_LIMIT, HIGH); else digitalWrite(LED_LIMIT, LOW);
LoopLimitLed ==
    /\ pc = "l_limit"
    /\ ledLimit' = IF LimitCondition THEN "HIGH" ELSE "LOW"
    /\ pc' = "l_print"
    /\ UNCHANGED << logging, variant, win, call, cfgIdx, nss, sdcs, testPin,
                    hold, ledStatus, bus, logEnabled, spu, io, sinceRise,
                    locals, outputs >>

\* Variation: the two channels are reported the wrong way round.
LineOf_Swapped(v, a, a1, a2) ==
    IF v = 1 THEN << PrintedPercent(a) >>
    ELSE << PrintedPercent(a2), PrintedPercent(a1) >>

\* The percentages of the measurement line of the iteration.
LineOf(v, a, a1, a2) ==
    IF v = 1 THEN << PrintedPercent(a) >>
    ELSE << PrintedPercent(a1), PrintedPercent(a2) >>

\* Variation: variant 2 logs whether or not logging was enabled.
LoopPrint_AlwaysLogs ==
    /\ pc = "l_print"
    /\ serialLine' = LineOf(variant, adcValue_UA, adcChannel1, adcChannel2)
    /\ pc' = IF variant = 2 THEN "log_begin" ELSE "l_status_off"
    /\ loopSerial' = Append(loopSerial, IF variant = 1 THEN MsgLevel ELSE MsgChannels)
    /\ logCalls' = IF variant = 2 THEN logCalls + 1 ELSE logCalls
    /\ UNCHANGED << sdProbe, setupSerial, logResult, card, variant, win, call,
                    cfgIdx, pins, bus, logEnabled, spu, io, sinceRise, locals,
                    analogPin, pinRaw, pinPercent, logLast >>

\* Serial output of the measurement line; variant 2 then logs when enabled.
LoopPrint ==
    /\ pc = "l_print"
    /\ serialLine' = LineOf(variant, adcValue_UA, adcChannel1, adcChannel2)
    /\ pc' = IF variant = 2 /\ logEnabled THEN "log_begin" ELSE "l_status_off"
    /\ loopSerial' = Append(loopSerial, IF variant = 1 THEN MsgLevel ELSE MsgChannels)
    /\ logCalls' = IF variant = 2 /\ logEnabled THEN logCalls + 1 ELSE logCalls
    /\ UNCHANGED << sdProbe, setupSerial, logResult, card, variant, win, call,
                    cfgIdx, pins, bus, logEnabled, spu, io, sinceRise, locals,
                    analogPin, pinRaw, pinPercent, logLast >>

\* Variation: a failed SD.begin stops the sketch in an endless empty loop
\* after the error line, as the setup of many SD examples does.
LogBegin_HaltsOnError ==
    /\ pc = "log_begin"
    /\ \E ok \in BOOLEAN :
         /\ spiMode' = SdSpiMode
         /\ spiDiv' = SdSpiDiv(ok)
         /\ loopSerial' = IF ok THEN loopSerial ELSE Append(loopSerial, MsgSdError)
         /\ logResult' = IF ok THEN logResult ELSE "begin_failed"
         /\ pc' = IF ok THEN "log_write" ELSE "halted"
    /\ UNCHANGED << sdProbe, setupSerial, logCalls, card, variant, win, call,
                    cfgIdx, pins, logEnabled, spu, io, sinceRise, locals,
                    outputs >>

\* logData: if ( SD.begin(SDCARD_CS_PIN) ) ... else print the error.
LogBegin ==
    /\ pc = "log_begin"
    /\ \E ok \in BOOLEAN :
         /\ spiMode' = SdSpiMode
         /\ spiDiv' = SdSpiDiv(ok)
         /\ loopSerial' = IF ok THEN loopSerial ELSE Append(loopSerial, MsgSdError)
         /\ logResult' = IF ok THEN logResult ELSE "begin_failed"
         /\ pc' = IF ok THEN "log_write" ELSE "l_status_off"
    /\ UNCHANGED << sdProbe, setupSerial, logCalls, card, variant, win, call,
                    cfgIdx, pins, logEnabled, spu, io, sinceRise, locals,
                    outputs >>

\* Variation: the file is opened for writing from its start.
LogWrite_Truncates ==
    /\ pc = "log_write"
    /\ \E opened \in BOOLEAN :
         LET stored == opened /\ cardFree > 0 IN
         /\ logLast' = IF stored THEN serialLine ELSE logLast
         /\ logFile' = IF stored THEN << serialLine >> ELSE logFile
         /\ cardFree' = IF stored THEN cardFree - 1 ELSE cardFree
         /\ logResult' = IF stored THEN "written"
                         ELSE IF opened THEN "write_failed" ELSE "open_failed"
    /\ pc' = "l_status_off"
    /\ UNCHANGED << sdProbe, setupSerial, loopSerial, logCalls, variant, win,
                    call, cfgIdx, pins, bus, logEnabled, spu, io, sinceRise,
                    locals, analogPin, pinRaw, pinPercent, serialLine >>

\* logData: SD.open, println, close.  A file that did not open, or a card
\* with no room left, takes no data; the sketch checks neither.
LogWrite ==
    /\ pc = "log_write"
    /\ \E opened \in BOOLEAN :
         LET stored == opened /\ cardFree > 0 IN
         /\ logLast' = IF stored THEN serialLine ELSE logLast
         /\ logFile' = IF stored THEN Append(logFile, serialLine) ELSE logFile
         /\ cardFree' = IF stored THEN cardFree - 1 ELSE cardFree
         /\ logResult' = IF stored THEN "written"
                         ELSE IF opened THEN "write_failed" ELSE "open_failed"
    /\ pc' = "l_status_off"
    /\ UNCHANGED << sdProbe, setupSerial, loopSerial, logCalls, variant, win,
                    call, cfgIdx, pins, bus, logEnabled, spu, io, sinceRise,
                    locals, analogPin, pinRaw, pinPercent, serialLine >>

\* delay(100); digitalWrite(LED_STATUS, LOW); delay(400); the locals of the
\* iteration go out of scope.
LoopStatusOff ==
    /\ pc = "l_status_off"
    /\ ledStatus' = "LOW"
    /\ win' = 0
    /\ adcValue_UA' = 0
    /\ adcChannel1' = 0
    /\ adcChannel2' = 0
    /\ analogOutput' = 0
    /\ knock_percentage' = FloatZero
    /\ knockChannel1' = FloatZero
    /\ knockChannel2' = FloatZero
    /\ pc' = "l_status"
    /\ UNCHANGED << logging, variant, call, cfgIdx, nss, sdcs, testPin, hold,
                    ledLimit, bus, logEnabled, spu, io, sinceRise, outputs >>

----------------------------------------------------------------------------
Next ==
    \/ SetupBegin
    \/ SetupPinMode
    \/ SetupInitialValues
    \/ SetupFlashOn
    \/ SetupFlashOff
    \/ SetupSdProbe
    \/ SetupConfigure
    \/ SetupDone
    \/ ComSpiConfigure
    \/ ComSpiSelect
    \/ ComSpiTransfer
    \/ ComSpiDeselect
    \/ ComSpiReturn
    \/ LoopStatusOn
    \/ LoopSelectChannel
    \/ LoopHoldHigh
    \/ LoopWait
    \/ LoopHoldLow
    \/ LoopAdcRead
    \/ LoopAnalogWrite
    \/ LoopLimitLed
    \/ LoopPrint
    \/ LogBegin
    \/ LogWrite
    \/ LoopStatusOff

Spec == Init /\ [][Next]_vars

\* The sketch is the only thread of control and every statement returns:
\* whenever a statement is pending it is eventually executed.
FairSpec == Spec /\ WF_vars(Next)

----------------------------------------------------------------------------
(* The signal conditioner over the whole ADC range.  SpecCond starts where *)
(* loop() has taken the samples of an iteration (logging disabled at       *)
(* start-up), with any ADC code in variant 1 and, in variant 2, any code   *)
(* on one channel against a sampled code or a tie on the other; the pin    *)
(* still carries the output of the iteration before, computed from the     *)
(* code one below.  It then runs the rest of the iteration.                *)

CondPairs ==
    { p \in (0..ADC_MAX) \X (0..ADC_MAX) :
        \/ p[1] = p[2]
        \/ p[1] \in AdcValues
        \/ p[2] \in AdcValues }

WindowEvents(byte, inLoop, ch, v) ==
    (IF inLoop THEN << Event("spi", byte, 0) >> ELSE << >>)
    \o << Event("hold", 1, 0), Event("delay", MEASUREMENT_WINDOW_TIME, 0),
          Event("hold", 0, 0), Event("adc", ch, v) >>

PreviousRaw(r) == IF r = 0 THEN 0 ELSE r - 1

InitCond ==
    /\ variant \in {1, 2}
    /\ pc = "l_conv"
    /\ \E p \in CondPairs :
         /\ adcValue_UA = IF variant = 1 THEN p[1] ELSE 0
         /\ adcChannel1 = IF variant = 2 THEN p[1] ELSE 0
         /\ adcChannel2 = IF variant = 2 THEN p[2] ELSE 0
         /\ variant = 1 => p[2] = p[1]
    /\ io = IF variant = 1
            THEN WindowEvents(0, FALSE, 1, adcValue_UA)
            ELSE WindowEvents(SPU_SET_CHANNEL_1, TRUE, 1, adcChannel1)
                 \o WindowEvents(SPU_SET_CHANNEL_2, TRUE, 2, adcChannel2)
    /\ pinRaw = PreviousRaw(IF variant = 1 THEN adcValue_UA
                            ELSE CombinedAdc(adcChannel1, adcChannel2))
    /\ analogPin = AnalogOutputOf(pinRaw)
    /\ ledLimit = IF (IF variant = 1 THEN PercentReaches80(pinRaw)
                      ELSE OutputReachesThreshold(analogPin))
                  THEN "HIGH" ELSE "LOW"
    /\ win = variant
    /\ spiRet = "none"
    /\ txData = IF variant = 1 THEN SPU_SET_INTEGRATOR_TIME ELSE SPU_SET_CHANNEL_2
    /\ cfgIdx = Len(ConfigSeq(variant))
    /\ nss = "HIGH"
    /\ sdcs = IF variant = 2 THEN "HIGH" ELSE "Z"
    /\ testPin = "HIGH"
    /\ hold = "LOW"
    /\ ledStatus = "HIGH"
    /\ spiMode = SPI_MODE1
    /\ spiDiv = SPI_CLOCK_DIV16
    /\ logEnabled = FALSE
    /\ spuChannel = variant
    /\ cfgLog = ConfigSeq(variant)
    /\ sinceRise = 0
    /\ analogOutput = 0
    /\ serialLine = << >>
    /\ logLast = << >>
    /\ csLows = 1
    /\ csBytes = 1
    /\ sdProbe = IF variant = 2 THEN "fail" ELSE "none"
    /\ setupSerial = IF variant = 2 THEN << MsgReset, MsgConfiguring >>
                     ELSE << MsgReset, MsgSpuSpi, MsgSpuSpi, MsgSpuSpi,
                             MsgSpuSpi, MsgSpuSpi >>
    /\ loopSerial = << >>
    /\ logCalls = 0
    /\ logResult = "none"
    /\ logFile = << >>
    /\ cardFree = IF variant = 2 THEN MaxLog ELSE 0
    /\ knock_percentage = FloatZero
    /\ knockChannel1 = FloatZero
    /\ knockChannel2 = FloatZero
    /\ pinPercent = KnockPercentage(pinRaw)

NextCond ==
    \/ LoopAnalogWrite
    \/ LoopLimitLed
    \/ LoopPrint
    \/ LoopStatusOff

SpecCond == InitCond /\ [][NextCond]_vars

TypeOK ==
    /\ variant \in {1, 2}
    /\ win \in 0..2
    /\ nss \in {"Z", "LOW", "HIGH"}
    /\ hold \in {"Z", "LOW", "HIGH"}
    /\ analogPin \in 0..PWM_MAX
    /\ sinceRise \in 0..(MEASUREMENT_WINDOW_TIME + 2 * MaxJitter)

----------------------------------------------------------------------------
(* Vocabulary of the properties.                                           *)

HoldRise == Event("hold", 1, 0)
HoldFall == Event("hold", 0, 0)
Wait == Event("delay", MEASUREMENT_WINDOW_TIME, 0)

RiseIdx == { i \in DOMAIN io : io[i] = HoldRise }
AdcIdx == { i \in DOMAIN io : io[i][1] = "adc" }
SpiIdx == { i \in DOMAIN io : io[i][1] = "spi" }

\* Number of indices of S below i.
Before(S, i) == Cardinality({ j \in S : j < i })

IsPrefix(s, t) == Len(s) <= Len(t) /\ SubSeq(t, 1, Len(s)) = s

\* Statements of loop() at which the samples of the iteration are all taken.
SamplesTaken == pc \in {"l_conv", "l_limit", "l_print", "log_begin",
                        "log_write", "l_status_off"}
\* ... the analog output of the iteration is written.
OutputWritten == pc \in {"l_limit", "l_print", "log_begin", "log_write",
                         "l_status_off"}
\* ... the limit LED of the iteration is set.
LimitSet == pc \in {"l_print", "log_begin", "log_write", "l_status_off"}

----------------------------------------------------------------------------
\* C1: every ADC read is taken with the hold line LOW and comes right after
\* hold HIGH, the blocking wait and hold LOW, in that order; the hold line is
\* never raised again before the one ADC read of the open window is taken,
\* and no window gets a second read.
C1_WindowOrder ==
    /\ pc = "l_adc" => hold = "LOW"
    /\ \A i \in AdcIdx :
         /\ i >= 4
         /\ io[i - 1] = HoldFall
         /\ io[i - 2] = Wait
         /\ io[i - 3] = HoldRise
    /\ \A i \in RiseIdx : Before(AdcIdx, i) = Before(RiseIdx, i)
    /\ pc = "l_hold_hi" => Cardinality(AdcIdx) = Cardinality(RiseIdx)
    /\ SamplesTaken => Cardinality(AdcIdx) = Cardinality(RiseIdx)

C1_Witness ==
    /\ pc = "l_conv"
    /\ variant = 2
    /\ Cardinality(AdcIdx) = 2
    /\ hold = "LOW"

\* C2 as stated: in either variant every raising of the hold line comes
\* right after the SPI write of the channel-select byte of that window.
C2_SelectBeforeEveryWindow ==
    \A i \in RiseIdx :
        /\ i > 1
        /\ io[i - 1] = Event("spi", IF Before(RiseIdx, i) = 0
                                    THEN SPU_SET_CHANNEL_1
                                    ELSE SPU_SET_CHANNEL_2, 0)

\* C2 amended: in the two-channel variant every raising of the hold line comes
\* right after the SPI write of the channel-select byte of that window, and
\* that is the only SPI write of the window; in the single-channel variant no
\* byte is written in the loop and every window runs on the channel-1
\* selection written once at start-up.
C2_SelectPerWindowTwoChannel ==
    /\ variant = 2 =>
         /\ \A i \in RiseIdx :
              /\ i > 1
              /\ io[i - 1] = Event("spi", IF Before(RiseIdx, i) = 0
                                          THEN SPU_SET_CHANNEL_1
                                          ELSE SPU_SET_CHANNEL_2, 0)
              /\ Before(SpiIdx, i) = Before(RiseIdx, i) + 1
         /\ \A i \in SpiIdx : io[i][2] \in {SPU_SET_CHANNEL_1, SPU_SET_CHANNEL_2}
         /\ SamplesTaken => Cardinality(SpiIdx) = Cardinality(RiseIdx)
    /\ variant = 1 =>
         /\ SpiIdx = {}
         /\ hold = "HIGH" =>
              /\ spuChannel = 1
              /\ Cardinality({ k \in DOMAIN cfgLog :
                                 cfgLog[k] = SPU_SET_CHANNEL_1 }) = 1

C2_Witness ==
    /\ variant = 2
    /\ pc = "l_wait"
    /\ win = 2
    /\ io[Len(io) - 1] = Event("spi", SPU_SET_CHANNEL_2, 0)

\* C3: in the two-channel variant an iteration runs exactly two windows; the
\* first is read with the SPU set to channel 1, the second with the SPU set
\* to channel 2; the second select is sent only after the first read; and the
\* k-th percentage of the printed line is that of the read taken on channel k.
C3_TwoWindowsInOrder ==
    variant = 2 =>
        /\ \A i \in AdcIdx : io[i][2] = Before(AdcIdx, i) + 1
        /\ \A i \in SpiIdx : i > 1 => io[i - 1][1] = "adc"
        /\ \A i \in RiseIdx : Before(RiseIdx, i) = Before(AdcIdx, i)
        /\ Cardinality(RiseIdx) <= 2
        /\ SamplesTaken =>
             /\ Cardinality(RiseIdx) = 2
             /\ Cardinality(AdcIdx) = 2
             /\ \A i \in AdcIdx :
                  /\ io[i][2] = 1 => adcChannel1 = io[i][3]
                  /\ io[i][2] = 2 => adcChannel2 = io[i][3]
        /\ serialLine # << >> =>
             /\ Len(serialLine) = 2
             /\ \A i \in AdcIdx :
                  200 * io[i][3] - ADC_MAX < 2 * ADC_MAX * serialLine[io[i][2]]
                  /\ 2 * ADC_MAX * serialLine[io[i][2]] <= 200 * io[i][3] + ADC_MAX

C3_Witness ==
    /\ variant = 2
    /\ pc = "l_status_off"
    /\ serialLine # << >>
    /\ adcChannel1 # adcChannel2
    /\ serialLine[1] # serialLine[2]

\* C4: the configuration bytes go out in the order prescaler, band-pass
\* frequency, gain, integrator time, each once, and all four are out before
\* the hold line is raised for the first time.
ConfigOrder ==
    << SPU_SET_PRESCALAR_6MHz, SPU_SET_BAND_PASS_FREQUENCY,
       SPU_SET_PROGRAMMABLE_GAIN, SPU_SET_INTEGRATOR_TIME >>

IsConfigByte(b) == \E k \in DOMAIN ConfigOrder : ConfigOrder[k] = b

C4_ConfigOrderBeforeFirstWindow ==
    /\ IsPrefix(SelectSeq(cfgLog, IsConfigByte), ConfigOrder)
    /\ (hold = "HIGH" \/ io # << >> \/ ~(InSetup \/ InComSpi)) =>
         SelectSeq(cfgLog, IsConfigByte) = ConfigOrder

C4_Witness ==
    /\ variant = 1
    /\ hold = "HIGH"
    /\ Len(cfgLog) = 5

\* C5: when the hold line is lowered it has been HIGH for at least
\* MEASUREMENT_WINDOW_TIME microseconds, and when the ADC is read at least
\* that long has passed since the hold line was raised.
C5_WindowFloor ==
    /\ hold = "HIGH" => pc \in {"l_wait", "l_hold_lo"}
    /\ pc = "l_hold_lo" => hold = "HIGH" /\ sinceRise >= MEASUREMENT_WINDOW_TIME
    /\ pc = "l_adc" => sinceRise >= MEASUREMENT_WINDOW_TIME

C5_Witness ==
    /\ pc = "l_adc"
    /\ sinceRise = MEASUREMENT_WINDOW_TIME

\* C6: once the pins are initialised the SPU chip select is HIGH outside
\* COM_SPI; it is LOW only around the transfer; a call lowers it once,
\* transfers one byte while it is LOW and returns with it HIGH.
C6_ChipSelectFraming ==
    /\ (~InComSpi /\ pc \notin {"s_begin", "s_pinmode", "s_initvals"}) =>
         nss = "HIGH"
    /\ nss = "LOW" => pc \in {"spi_xfer", "spi_high"}
    /\ pc = "spi_xfer" => nss = "LOW" /\ csBytes = 0 /\ csLows = 1
    /\ pc = "spi_high" => nss = "LOW" /\ csBytes = 1 /\ csLows = 1
    /\ pc = "spi_ret" => nss = "HIGH" /\ csBytes = 1 /\ csLows = 1

C6_Witness ==
    /\ pc = "spi_ret"
    /\ spiRet = "l_hold_hi"
    /\ nss = "HIGH"
    /\ csBytes = 1

\* C7: once the limit LED of an iteration is set it is HIGH exactly when the
\* analog output written in that iteration is at least 204, and LOW otherwise.
C7_LimitIffOutputAtThreshold ==
    LimitSet =>
        /\ ledLimit \in Levels
        /\ ledLimit = "HIGH" <=> analogPin >= 204
        /\ analogPin \in {0, 203} => ledLimit = "LOW"
        /\ analogPin \in {204, 255} => ledLimit = "HIGH"

C7_Witness ==
    /\ variant = 1
    /\ pc = "l_print"
    /\ analogPin = 204
    /\ ledLimit = "HIGH"

\* C8: the analog output written for raw value r is floor(r*255/1023); it is
\* within 0..255, 0 at r = 0 and 255 at r = 1023; and an output written for a
\* raw value no smaller than the one before is no smaller than the one before.
C8_OutputOfRaw ==
    OutputWritten =>
        /\ analogPin = analogOutput
        /\ analogPin * ADC_MAX <= pinRaw * PWM_MAX
        /\ pinRaw * PWM_MAX < (analogPin + 1) * ADC_MAX
        /\ analogPin \in 0..255
        /\ pinRaw = 0 => analogPin = 0
        /\ pinRaw = 1023 => analogPin = 255

C8_Monotone ==
    pc = "l_conv" =>
        /\ AdcForOutput >= pinRaw => analogPin' >= analogPin
        /\ AdcForOutput <= pinRaw => analogPin' <= analogPin

C8_LinearRescale == [] C8_OutputOfRaw /\ [][C8_Monotone]_vars

C8_Witness ==
    /\ pc = "l_limit"
    /\ pinRaw = 1023
    /\ analogPin = 255

\* C9: in the two-channel variant the value written to the analog output, and
\* the one the limit LED follows, is the rescale of the larger of the two
\* raw values of the iteration, ties included.
Larger(a, b) == CHOOSE m \in {a, b} : m >= a /\ m >= b

Rescale(r) == (r * PWM_MAX) \div ADC_MAX

C9_OutputOfLargerChannel ==
    variant = 2 =>
        /\ OutputWritten =>
             /\ analogPin = Rescale(Larger(adcChannel1, adcChannel2))
             /\ analogOutput = Rescale(Larger(adcChannel1, adcChannel2))
        /\ LimitSet =>
             (ledLimit = "HIGH" <=>
                Rescale(Larger(adcChannel1, adcChannel2)) >= 204)

C9_Witness ==
    /\ variant = 2
    /\ pc = "l_print"
    /\ adcChannel1 > adcChannel2
    /\ Rescale(adcChannel2) < 204
    /\ ledLimit = "HIGH"

\* C10 as stated: in the single-channel variant the limit LED is LOW for
\* every raw value up to 817 and HIGH from 818 on, with output 204 at 818.
C10_BoundaryAt818 ==
    (variant = 1 /\ LimitSet) =>
        /\ adcValue_UA <= 817 => ledLimit = "LOW"
        /\ adcValue_UA >= 818 => ledLimit = "HIGH"
        /\ adcValue_UA = 818 => analogPin = 204

\* C10 amended: in the single-channel variant the limit LED is LOW for every
\* raw value up to 818 and HIGH from 819 on; the output is 203 at 818 and 204
\* at 819.
C10_BoundaryAt819 ==
    (variant = 1 /\ LimitSet) =>
        /\ adcValue_UA <= 818 => ledLimit = "LOW"
        /\ adcValue_UA >= 819 => ledLimit = "HIGH"
        /\ adcValue_UA = 818 => analogPin = 203
        /\ adcValue_UA = 819 => analogPin = 204

C10_Witness ==
    /\ variant = 1
    /\ pc = "l_print"
    /\ adcValue_UA = 819
    /\ ledLimit = "HIGH"

\* Number of lines of a serial transcript that report a storage failure.
IsStorageFailure(m) ==
    m \notin {MsgReset, MsgLogEnabled, MsgSpuSpi, MsgConfiguring, MsgLevel,
              MsgChannels}

FailureLines(t) == Cardinality({ i \in DOMAIN t : IsStorageFailure(t[i]) })

InLogData == pc \in {"log_begin", "log_write"}

\* C11: after a failed probe logEnabled is false in every state, logData is
\* never called and the card is never touched; and logEnabled is written by
\* the probe statement of setup only.
C11_ProbeFailed ==
    sdProbe = "fail" =>
        /\ ~logEnabled
        /\ ~InLogData
        /\ logCalls = 0
        /\ logResult = "none"
        /\ logLast = << >>
        /\ logFile \in CardContents(variant)
        /\ cardFree = MaxLog

C11_FlagWrittenInSetup == logEnabled' # logEnabled => pc = "s_sdprobe"

C11_DisabledForSession == [] C11_ProbeFailed /\ [][C11_FlagWrittenInSetup]_vars

C11_Witness ==
    /\ variant = 2
    /\ sdProbe = "fail"
    /\ pc = "l_status_off"
    /\ serialLine # << >>

C13_FailedAttemptReported ==
    (variant = 2 /\ sdProbe = "ok" /\ pc = "l_status_off") =>
        /\ logEnabled
        /\ logCalls = 1
        /\ logResult # "none"
        /\ logResult # "written" => FailureLines(loopSerial) = 1
        /\ logResult = "written" => FailureLines(loopSerial) = 0

\* C15: in the two-channel variant an iteration whose logData call gets
\* through has appended one line, the line printed on the serial port in that
\* iteration, made of the percentages of the two samples; log.txt only ever
\* grows at its end, by one line, in logData.
C15_LineOfIteration ==
    (variant = 2 /\ pc = "l_status_off") =>
        /\ logEnabled => logCalls = 1 /\ logResult # "none"
        /\ logResult = "written" =>
             /\ logEnabled
             /\ loopSerial = << MsgChannels >>
             /\ logLast = serialLine
             /\ logFile # << >>
             /\ logFile[Len(logFile)] = serialLine
             /\ Len(serialLine) = 2
             /\ 200 * adcChannel1 - ADC_MAX < 2 * ADC_MAX * serialLine[1]
             /\ 2 * ADC_MAX * serialLine[1] <= 200 * adcChannel1 + ADC_MAX
             /\ 200 * adcChannel2 - ADC_MAX < 2 * ADC_MAX * serialLine[2]
             /\ 2 * ADC_MAX * serialLine[2] <= 200 * adcChannel2 + ADC_MAX

C15_AppendOnly ==
    /\ IsPrefix(logFile, logFile')
    /\ Len(logFile') <= Len(logFile) + 1
    /\ logFile' # logFile => pc = "log_write" /\ logFile' = Append(logFile, serialLine)

C15_LogFollowsSerial == [] C15_LineOfIteration /\ [][C15_AppendOnly]_vars

C15_Witness ==
    /\ variant = 2
    /\ pc = "l_status_off"
    /\ logResult = "written"
    /\ Len(logFile) = 2
    /\ logFile[1] # logFile[2]

\* C14: the loop never halts: every iteration is completed and followed by
\* another, so the hold line is raised again and again, whatever the ADC
\* reads and whatever becomes of the storage operations.
C14_LoopNeverHalts ==
    /\ []<>(pc = "l_status")
    /\ []<>(hold = "HIGH")
    /\ (pc = "l_hold_hi") ~> (pc = "l_status_off")
    /\ (pc = "log_begin") ~> (pc = "l_status")

C14_Witness ==
    /\ variant = 2
    /\ hold = "HIGH"
    /\ win = 2
    /\ cardFree < MaxLog
    /\ spiDiv = SPI_CLOCK_DIV16

\* C17: in the two-channel variant the bus is in data mode 1 with clock
\* divider 16 from the moment COM_SPI lowers the chip select until it
\* raises it again, so every byte the SPU receives is sent with these
\* settings, whatever an SD access left behind beforehand.
C17_SpuBusSettings ==
    (variant = 2 /\ pc \in {"spi_low", "spi_xfer", "spi_high"}) =>
        /\ spiMode = SPI_MODE1
        /\ spiDiv = SPI_CLOCK_DIV16

C17_Witness ==
    /\ variant = 2
    /\ pc = "spi_xfer"
    /\ spiRet = "l_hold_hi"
    /\ txData = SPU_SET_CHANNEL_1
    /\ cardFree < MaxLog
    /\ spiMode = SPI_MODE1

\* C18: while the hold line is HIGH the sketch is between raising it and
\* lowering it: the SPU chip select is HIGH, no COM_SPI call and no SD access
\* is under way; put the other way round, every COM_SPI call and every SD
\* access runs with the hold line not HIGH.
InStorageAccess == pc \in {"s_sdprobe", "log_begin", "log_write"}

C18_BusIdleInWindow ==
    /\ hold = "HIGH" =>
         /\ pc \in {"l_wait", "l_hold_lo"}
         /\ nss = "HIGH"
         /\ ~InComSpi
         /\ ~InStorageAccess
    /\ (InComSpi \/ InStorageAccess \/ nss = "LOW") => hold # "HIGH"

C18_Witness ==
    /\ variant = 2
    /\ hold = "HIGH"
    /\ pc = "l_hold_lo"
    /\ win = 2
    /\ nss = "HIGH"
    /\ cardFree < MaxLog

\* The measurement line of the iteration is out; the percentage it shows
\* (the larger of the two in the two-channel variant).
LinePrinted ==
    /\ serialLine # << >>
    /\ pc \in {"log_begin", "log_write", "l_status_off"}

ShownPercent == Larger(serialLine[1], serialLine[Len(serialLine)])

\* C20 as stated: whenever the line shows 80 or more the limit LED is HIGH,
\* and whenever it shows less than 80 the limit LED is LOW.
C20_LedAgreesWithShown ==
    LinePrinted =>
        /\ ShownPercent >= 80 => ledLimit = "HIGH"
        /\ ShownPercent < 80 => ledLimit = "LOW"

\* C20 amended: the LED is HIGH whenever the line shows 81 or more and LOW
\* whenever it shows 79 or less; a shown 80 stands for the raw values 814 to
\* 823, of which 814..818 (below 80 before rounding) leave the LED LOW and
\* 819..823 drive it HIGH.
C20_LedAgreesUpToRounding ==
    LinePrinted =>
        /\ ShownPercent >= 81 => ledLimit = "HIGH"
        /\ ShownPercent <= 79 => ledLimit = "LOW"
        /\ ShownPercent = 80 =>
             /\ AdcForOutput \in 814..823
             /\ AdcForOutput <= 818 => ledLimit = "LOW"
             /\ AdcForOutput >= 819 => ledLimit = "HIGH"
        /\ AdcForOutput \in 814..823 => ShownPercent = 80

C20_Witness ==
    /\ variant = 2
    /\ pc = "l_status_off"
    /\ serialLine = << 80, 80 >>
    /\ adcChannel1 = 816
    /\ adcChannel2 = 816
    /\ ledLimit = "LOW"

\* C19: the limit LED and the analog output of an iteration are given by the
\* raw values sampled in that iteration alone (LED HIGH from 819 on, output
\* the rescaled value, both of the larger channel in the two-channel
\* variant), whatever was sampled, lit or logged before; so two runs that
\* agree on the samples of the iteration agree on both outputs.
CurrentRaw ==
    IF variant = 1 THEN adcValue_UA ELSE Larger(adcChannel1, adcChannel2)

C19_LedOfCurrentSamples ==
    LimitSet =>
        /\ ledLimit = IF CurrentRaw >= 819 THEN "HIGH" ELSE "LOW"
        /\ analogPin = Rescale(CurrentRaw)

\* The iteration before showed 100% on both channels and lit the LED, and
\* its line was logged; this one samples 818 and 0 and has the LED LOW.
C19_Witness ==
    /\ variant = 2
    /\ pc = "l_print"
    /\ logFile # << >>
    /\ logFile[Len(logFile)] = << 100, 100 >>
    /\ adcChannel1 = 818
    /\ adcChannel2 = 0
    /\ ledLimit = "LOW"
    /\ analogPin = 203

\* The percentages computed in the iteration, each with the raw value it
\* was computed from.
Computed ==
    IF variant = 1 THEN { << knock_percentage, adcValue_UA >> }
    ELSE { << knockChannel1, adcChannel1 >>, << knockChannel2, adcChannel2 >> }

\* p * 1023 - r * 100, counted in units of the last place of p times 1/1023
\* (in units of 1 when p is zero); the products are formed in two halves of
\* 12 bits to stay within the integers at hand.
PercentError(p, r) ==
    IF p[1] = 0 THEN 0 - r * 100
    ELSE LET d == 0 - p[2]
             h == p[1] \div 4096
             l == p[1] % 4096
             hi == h * ADC_MAX + (l * ADC_MAX) \div 4096
             lo == (l * ADC_MAX) % 4096
             want == r * 100 * 2^(d - 12)
         IN  (hi - want) * 4096 + lo

Hundred == FloatOfInt(100)

\* C16 as stated: the percentage computed from raw value r satisfies
\* percentage * 1023 = r * 100, lies in 0..100, is 0 at 0 and 100 at 1023,
\* and two readings of 1023 print 100% and 100%.
C16_PercentageExact ==
    /\ OutputWritten =>
         \A c \in Computed :
            /\ PercentError(c[1], c[2]) = 0
            /\ FloatLe(c[1], Hundred)
            /\ c[2] = 0 => c[1] = FloatZero
            /\ c[2] = ADC_MAX => c[1] = Hundred
    /\ (LinePrinted /\ adcChannel1 = ADC_MAX /\ adcChannel2 = ADC_MAX) =>
         serialLine = << 100, 100 >>

\* C16 amended: the percentage is the single-precision result of
\* ((float)r / 1023) * 100: it is within 4 units in its last place of
\* r*100/1023 and equal to it at r = 0 and r = 1023 only; it lies in 0..100,
\* is 0 at 0 and 100 at 1023; the printed value is r*100/1023 rounded to the
\* nearest integer, so two readings of 1023 print 100% and 100%; and a
\* percentage computed from a raw value no smaller than the one before is no
\* smaller than the one before.
C16_PercentageOfRaw ==
    /\ OutputWritten =>
         \A c \in Computed :
            /\ PercentError(c[1], c[2]) < 4 * ADC_MAX
            /\ PercentError(c[1], c[2]) > 0 - 4 * ADC_MAX
            /\ PercentError(c[1], c[2]) = 0 <=> c[2] \in {0, ADC_MAX}
            /\ FloatLe(c[1], Hundred)
            /\ c[2] = 0 => c[1] = FloatZero
            /\ c[2] = ADC_MAX => c[1] = Hundred
    /\ LinePrinted =>
         /\ variant = 1 =>
              serialLine = << (200 * adcValue_UA + ADC_MAX) \div (2 * ADC_MAX) >>
         /\ variant = 2 =>
              serialLine = << (200 * adcChannel1 + ADC_MAX) \div (2 * ADC_MAX),
                              (200 * adcChannel2 + ADC_MAX) \div (2 * ADC_MAX) >>
         /\ (adcChannel1 = ADC_MAX /\ adcChannel2 = ADC_MAX) =>
              serialLine = << 100, 100 >>

C16_PercentageMonotone ==
    pc = "l_conv" =>
        /\ AdcForOutput >= pinRaw => FloatLe(pinPercent, pinPercent')
        /\ AdcForOutput <= pinRaw => FloatLe(pinPercent', pinPercent)

C16_PercentageRounded ==
    [] C16_PercentageOfRaw /\ [][C16_PercentageMonotone]_vars

C16_Witness ==
    /\ variant = 2
    /\ pc = "l_status_off"
    /\ adcChannel1 = ADC_MAX
    /\ adcChannel2 = 341
    /\ knockChannel1 = Hundred
    /\ PercentError(knockChannel2, adcChannel2) # 0
    /\ serialLine = << 100, 33 >>

====
